---- MODULE Spec2Model ----
(***************************************************************************)
(* Model of the NDK reconciliation step (main.go): ndkVersion,             *)
(* currentNDKHome, updateNDK and main.                                     *)
(*                                                                         *)
(* Strings are sequences of tokens: a token is a word, a separator or a    *)
(* path component.  The empty string is <<>>.  A path is the sequence of   *)
(* its components; PATH holds its entries separated by ":" tokens.         *)
(***************************************************************************)
EXTENDS Naturals, Sequences, FiniteSets, TLC

VARIABLES
    baseEnv,        \* environment the pipeline gives to the first invocation
    env,            \* live process environment of the running invocation
    exported,       \* envman store: entries published for later steps
    fs,             \* install locations on disk: directory and source.properties
    gradlew,        \* the gradlew file: existence, mode, whether chmod is permitted
    input,          \* step inputs of the running invocation (ndk_version)
    config,         \* Config struct filled by the input parser
    androidSdk,     \* *sdk.Model: the SDK root, or none
    currentNdkHome, \* updateNDK local
    currentVersion, \* updateNDK local
    pc,             \* position in main / updateNDK
    ops,            \* effects of the running invocation, in order
    run,            \* number of the running invocation
    prev            \* summary of the previous invocation

vars == <<baseEnv, env, exported, fs, gradlew, input, config, androidSdk,
          currentNdkHome, currentVersion, pc, ops, run, prev>>

----------------------------------------------------------------------------
(* Bounds *)

MaxContentLen == 6

MaxRuns == 2

MaxInstalled == 1

----------------------------------------------------------------------------
(* Strings *)

androidNDKHome == "ANDROID_NDK_HOME"

NL == "\n"

EQ == "="

SP == " "

Empty == <<>>

SeqsUpTo(S, n) == UNION {[1..k -> S] : k \in 0..n}

\* strings.ToLower, token by token
ToLower(t) ==
    CASE t = "Pkg.Revision" -> "pkg.revision"
      [] t = "PKG.REVISION" -> "pkg.revision"
      [] OTHER -> t

ToLowerStr(s) == [i \in 1..Len(s) |-> ToLower(s[i])]

\* strings.Contains(s, word) for a one-token word
Contains(s, word) == \E i \in 1..Len(s) : s[i] = word

\* strings.Split(s, sep): always at least one part
RECURSIVE Split(_, _)
Split(s, sep) ==
    IF \A i \in 1..Len(s) : s[i] # sep
    THEN <<s>>
    ELSE LET i == CHOOSE k \in 1..Len(s) :
                      s[k] = sep /\ \A j \in 1..(k - 1) : s[j] # sep
         IN  <<SubSeq(s, 1, i - 1)>> \o Split(SubSeq(s, i + 1, Len(s)), sep)

IsSpace(t) == t \in {SP, NL, "\t", "\r"}

RECURSIVE TrimLeft(_)
TrimLeft(s) == IF s # <<>> /\ IsSpace(Head(s)) THEN TrimLeft(Tail(s)) ELSE s

RECURSIVE TrimRight(_)
TrimRight(s) ==
    IF s # <<>> /\ IsSpace(s[Len(s)]) THEN TrimRight(SubSeq(s, 1, Len(s) - 1)) ELSE s

\* strings.TrimSpace
TrimSpace(s) == TrimRight(TrimLeft(s))

\* filepath.Clean on components: empty and "." components vanish
Clean(p) == SelectSeq(p, LAMBDA c : c # "" /\ c # ".")

\* filepath.Join
Join(a, b) == Clean(a \o b)

IsPrefix(p, q) == Len(p) <= Len(q) /\ SubSeq(q, 1, Len(p)) = p

----------------------------------------------------------------------------
(* Filesystem *)

Absent == [dir |-> FALSE, meta |-> "none", content |-> <<>>]

EmptyDir == [dir |-> TRUE, meta |-> "none", content |-> <<>>]

Unreadable == [dir |-> TRUE, meta |-> "unreadable", content |-> <<>>]

Installed(c) == [dir |-> TRUE, meta |-> "ok", content |-> c]

DirAt(fsys, p) == IF Clean(p) \in DOMAIN fsys THEN fsys[Clean(p)] ELSE Absent

\* fileutil.ReadStringFromFile of <dir>/source.properties
ReadStringFromFile(fsys, propertiesPath) ==
    LET d == DirAt(fsys, SubSeq(propertiesPath, 1, Len(propertiesPath) - 1))
    IN  IF d.meta = "ok"
        THEN [err |-> FALSE, content |-> d.content]
        ELSE [err |-> TRUE, content |-> <<>>]

\* os.RemoveAll: the path and everything below it
RemoveAll(fsys, p) ==
    [l \in DOMAIN fsys |-> IF IsPrefix(Clean(p), l) THEN Absent ELSE fsys[l]]

----------------------------------------------------------------------------
(* ndkVersion *)

RECURSIVE ScanLines(_)
ScanLines(lines) ==
    IF lines = <<>>
    THEN Empty
    ELSE LET line == Head(lines)
             lineParts == Split(line, EQ)
         IN  IF Contains(ToLowerStr(line), "pkg.revision") /\ Len(lineParts) = 2
             THEN TrimSpace(lineParts[2])
             ELSE ScanLines(Tail(lines))

\* variant: a read error is not turned into the empty version
ndkVersion_ErrUnknown(fsys, ndkPath) ==
    LET propertiesPath == Join(ndkPath, <<"source.properties">>)
        r == ReadStringFromFile(fsys, propertiesPath)
    IN  IF r.err THEN <<"unknown">> ELSE ScanLines(Split(r.content, NL))

ndkVersion(fsys, ndkPath) ==
    LET propertiesPath == Join(ndkPath, <<"source.properties">>)
        r == ReadStringFromFile(fsys, propertiesPath)
    IN  IF r.err THEN Empty ELSE ScanLines(Split(r.content, NL))

----------------------------------------------------------------------------
(* Environment *)

Unset == [set |-> FALSE, val |-> <<>>]

Val(v) == [set |-> TRUE, val |-> v]

\* os.Getenv
Getenv(e, k) == IF e[k].set THEN e[k].val ELSE Empty

\* os.Unsetenv
Unsetenv(e, k) == [e EXCEPT ![k] = Unset]

\* tools.ExportEnvironmentWithEnvman
ExportEnvironmentWithEnvman(store, k, v) == [store EXCEPT ![k] = Val(v)]

\* the environment a step is started with: the pipeline's, overlaid by the store
StepEnv(base, store) ==
    [k \in DOMAIN base |->
        IF k \in DOMAIN store /\ store[k].set THEN store[k] ELSE base[k]]

\* variant: ANDROID_NDK_HOME is not consulted
currentNDKHome_NoNdkHome(e) ==
    IF Getenv(e, "ANDROID_HOME") # Empty
         THEN Join(Getenv(e, "ANDROID_HOME"), <<"ndk-bundle">>)
    ELSE IF Getenv(e, "ANDROID_SDK_ROOT") # Empty
         THEN Join(Getenv(e, "ANDROID_SDK_ROOT"), <<"ndk-bundle">>)
    ELSE IF Getenv(e, "HOME") # Empty
         THEN Join(Getenv(e, "HOME"), <<"ndk-bundle">>)
    ELSE <<"ndk-bundle">>

\* variant: ANDROID_SDK_ROOT is consulted before ANDROID_HOME
currentNDKHome_SdkRootFirst(e) ==
    IF Getenv(e, androidNDKHome) # Empty THEN Getenv(e, androidNDKHome)
    ELSE IF Getenv(e, "ANDROID_SDK_ROOT") # Empty
         THEN Join(Getenv(e, "ANDROID_SDK_ROOT"), <<"ndk-bundle">>)
    ELSE IF Getenv(e, "ANDROID_HOME") # Empty
         THEN Join(Getenv(e, "ANDROID_HOME"), <<"ndk-bundle">>)
    ELSE IF Getenv(e, "HOME") # Empty
         THEN Join(Getenv(e, "HOME"), <<"ndk-bundle">>)
    ELSE <<"ndk-bundle">>

currentNDKHome(e) ==
    IF Getenv(e, androidNDKHome) # Empty THEN Getenv(e, androidNDKHome)
    ELSE IF Getenv(e, "ANDROID_HOME") # Empty
         THEN Join(Getenv(e, "ANDROID_HOME"), <<"ndk-bundle">>)
    ELSE IF Getenv(e, "ANDROID_SDK_ROOT") # Empty
         THEN Join(Getenv(e, "ANDROID_SDK_ROOT"), <<"ndk-bundle">>)
    ELSE IF Getenv(e, "HOME") # Empty
         THEN Join(Getenv(e, "HOME"), <<"ndk-bundle">>)
    ELSE <<"ndk-bundle">>

----------------------------------------------------------------------------
(* Universe of the reconciliation model *)

V1 == <<"18.1.5063045">>

V2 == <<"22.1.7171670">>

BadVersion == <<"abc">>

RequestedVersions == {Empty, V1, V2, BadVersion}

SdkDir == <<"sdk">>

OptNdk == <<"opt", "ndk">>

GradlewFile == <<"gradlew">>

InitialPath == <<"usr", "bin">>

\* source.properties as the package manager writes it for a revision
Meta(v) == <<"Pkg.Revision", SP, EQ, SP>> \o v

\* sdkcomponent.NDK.InstallPathInAndroidHome
InstallPathInAndroidHome(version) == Join(<<"ndk">>, version)

Locs ==
    {Join(SdkDir, <<"ndk-bundle">>), OptNdk}
    \cup {Join(SdkDir, InstallPathInAndroidHome(v)) : v \in {V1, V2}}

InitialDirs == {EmptyDir, Installed(Meta(V1)), Installed(Meta(V2))}

\* version.NewVersion accepts exactly the dotted numeric words
VersionWords == {"18.1.5063045", "22.1.7171670", "23.1.7779620"}

NewVersionErr(v) == ~(Len(v) = 1 /\ v[1] \in VersionWords)

NoSdk == [ok |-> FALSE, home |-> <<>>]

NoConfig ==
    [GradlewPath |-> Empty, AndroidHome |-> Empty, AndroidSDKRoot |-> Empty,
     NDKVersion |-> Empty]

\* the effects of one invocation that are package-manager invocations
Installs(o) == SelectSeq(o, LAMBDA e : e[1] \in {"sdkmanager", "sdkmanagerErr"})

\* the effects of one invocation that are recursive deletions
Removals(o) == SelectSeq(o, LAMBDA e : e[1] \in {"removeAll", "removeAllErr"})

\* the effects of one invocation that are publications
Exports(o) == SelectSeq(o, LAMBDA e : e[1] = "export")

NoPrev == [ran |-> FALSE, NDKVersion |-> Empty, ok |-> FALSE, installs |-> 0]

EmptyStore == [ANDROID_NDK_HOME |-> Unset, PATH |-> Unset]

----------------------------------------------------------------------------
(* Init *)

InitEnvs ==
    [ANDROID_NDK_HOME : {Unset, Val(Empty), Val(OptNdk)},
     ANDROID_HOME : {Val(Empty), Val(SdkDir)},
     ANDROID_SDK_ROOT : {Val(Empty), Val(SdkDir)},
     HOME : {Val(<<"home">>)},
     PATH : {Val(InitialPath)}]

InitFs ==
    {f \in [Locs -> InitialDirs \cup {Absent}] :
        Cardinality({l \in Locs : f[l].dir}) <= MaxInstalled}

InitGradlew ==
    {[exists |-> FALSE, mode |-> "none", chmodOk |-> FALSE],
     [exists |-> TRUE, mode |-> "0644", chmodOk |-> TRUE],
     [exists |-> TRUE, mode |-> "0644", chmodOk |-> FALSE]}

Init ==
    /\ baseEnv \in InitEnvs
    /\ env = baseEnv
    /\ exported = EmptyStore
    /\ fs \in InitFs
    /\ gradlew \in InitGradlew
    /\ input \in [ndk_version : RequestedVersions]
    /\ config = NoConfig
    /\ androidSdk = NoSdk
    /\ currentNdkHome = Empty
    /\ currentVersion = Empty
    /\ pc = "parse"
    /\ ops = <<>>
    /\ run = 1
    /\ prev = NoPrev

----------------------------------------------------------------------------
(* main *)

\* failf: logger.Errorf, then os.Exit(1)
Failf(phase) ==
    /\ ops' = Append(ops, <<"failf", phase>>)
    /\ pc' = "exit1"

\* stepconf Parse: the only constrained field is gradlew_path (file must exist);
\* an error is logged and main goes on
ParseConfig ==
    /\ pc = "parse"
    /\ config' = [GradlewPath |-> IF gradlew.exists THEN GradlewFile ELSE Empty,
                  AndroidHome |-> Getenv(env, "ANDROID_HOME"),
                  AndroidSDKRoot |-> Getenv(env, "ANDROID_SDK_ROOT"),
                  NDKVersion |-> input.ndk_version]
    /\ ops' = IF gradlew.exists THEN ops ELSE Append(ops, <<"errorf", "parse">>)
    /\ pc' = "chmod"
    /\ UNCHANGED <<baseEnv, env, exported, fs, gradlew, input, androidSdk,
                   currentNdkHome, currentVersion, run, prev>>

\* os.Chmod(config.GradlewPath, 0770)
Chmod ==
    /\ pc = "chmod"
    /\ IF config.GradlewPath = GradlewFile /\ gradlew.exists /\ gradlew.chmodOk
       THEN /\ gradlew' = [gradlew EXCEPT !.mode = "0770"]
            /\ ops' = Append(ops, <<"chmod", gradlew.mode>>)
            /\ pc' = "sdkinit"
       ELSE /\ Failf("chmod")
            /\ UNCHANGED gradlew
    /\ UNCHANGED <<baseEnv, env, exported, fs, input, config, androidSdk,
                   currentNdkHome, currentVersion, run, prev>>

\* sdk.NewDefaultModel: one of the configured SDK directories, or an error
NewDefaultModel ==
    /\ pc = "sdkinit"
    /\ \/ \E h \in {config.AndroidHome, config.AndroidSDKRoot} \ {Empty} :
            /\ androidSdk' = [ok |-> TRUE, home |-> h]
            /\ pc' = "ndk"
            /\ UNCHANGED ops
       \/ /\ Failf("sdkinit")
          /\ UNCHANGED androidSdk
    /\ UNCHANGED <<baseEnv, env, exported, fs, gradlew, input, config,
                   currentNdkHome, currentVersion, run, prev>>

\* variant: the result of version.NewVersion is not checked
ValidateVersion_Unchecked ==
    /\ pc = "ndk"
    /\ config.NDKVersion # Empty
    /\ pc' = "updateNDK"
    /\ UNCHANGED <<baseEnv, env, exported, fs, gradlew, input, config, androidSdk,
                   currentNdkHome, currentVersion, ops, run, prev>>

\* config.NDKVersion != "": version.NewVersion
ValidateVersion ==
    /\ pc = "ndk"
    /\ config.NDKVersion # Empty
    /\ IF NewVersionErr(config.NDKVersion)
       THEN Failf("version")
       ELSE pc' = "updateNDK" /\ UNCHANGED ops
    /\ UNCHANGED <<baseEnv, env, exported, fs, gradlew, input, config, androidSdk,
                   currentNdkHome, currentVersion, run, prev>>

----------------------------------------------------------------------------
(* updateNDK *)

\* variant: the install path is taken to be the legacy ndk-bundle path
newNDKHome_Legacy == Join(androidSdk.home, <<"ndk-bundle">>)

newNDKHome == Join(androidSdk.home, InstallPathInAndroidHome(config.NDKVersion))

\* variant: no early return when the versions are equal
ProbeCurrent_NoReturn ==
    /\ pc = "updateNDK"
    /\ currentNdkHome' = currentNDKHome(env)
    /\ currentVersion' = ndkVersion(fs, currentNDKHome(env))
    /\ ops' = Append(ops, <<"probe", currentNDKHome(env)>>)
    /\ pc' = "removeAll"
    /\ UNCHANGED <<baseEnv, env, exported, fs, gradlew, input, config, androidSdk,
                   run, prev>>

\* currentNDKHome, ndkVersion and the comparison
\* variant: any installed version counts as already installed
ProbeCurrent_AnyVersion ==
    /\ pc = "updateNDK"
    /\ currentNdkHome' = currentNDKHome(env)
    /\ currentVersion' = ndkVersion(fs, currentNDKHome(env))
    /\ ops' = Append(ops, <<"probe", currentNDKHome(env)>>)
    /\ pc' = IF ndkVersion(fs, currentNDKHome(env)) # Empty
             THEN "licences" ELSE "removeAll"
    /\ UNCHANGED <<baseEnv, env, exported, fs, gradlew, input, config, androidSdk,
                   run, prev>>

ProbeCurrent ==
    /\ pc = "updateNDK"
    /\ currentNdkHome' = currentNDKHome(env)
    /\ currentVersion' = ndkVersion(fs, currentNDKHome(env))
    /\ ops' = Append(ops, <<"probe", currentNDKHome(env)>>)
    /\ pc' = IF ndkVersion(fs, currentNDKHome(env)) = config.NDKVersion
             THEN "licences" ELSE "removeAll"
    /\ UNCHANGED <<baseEnv, env, exported, fs, gradlew, input, config, androidSdk,
                   run, prev>>

\* what an interrupted removal may leave: the directories without their files
PartialRemove(fsys, p) ==
    [l \in DOMAIN fsys |->
        IF IsPrefix(Clean(p), l) /\ fsys[l].dir THEN EmptyDir ELSE fsys[l]]

\* something is on disk at the path or below it
ExistsUnder(fsys, p) == \E l \in DOMAIN fsys : IsPrefix(Clean(p), l) /\ fsys[l].dir

\* variant: os.Remove semantics, a missing path is an error too
RemoveExisting_MissingIsError ==
    /\ pc = "removeAll"
    /\ \/ /\ ExistsUnder(fs, currentNdkHome)
          /\ fs' = RemoveAll(fs, currentNdkHome)
          /\ ops' = Append(ops, <<"removeAll", currentNdkHome>>)
          /\ pc' = "sdkmanagerNew"
       \/ /\ fs' \in {fs, PartialRemove(fs, currentNdkHome)}
          /\ ops' = Append(Append(ops, <<"removeAllErr", currentNdkHome>>),
                           <<"failf", "updateNDK">>)
          /\ pc' = "exit1"
    /\ UNCHANGED <<baseEnv, env, exported, gradlew, input, config, androidSdk,
                   currentNdkHome, currentVersion, run, prev>>

\* os.RemoveAll(currentNdkHome): nil when the path does not exist, otherwise
\* it removes what it can and may fail part way
RemoveExisting ==
    /\ pc = "removeAll"
    /\ \/ /\ fs' = RemoveAll(fs, currentNdkHome)
          /\ ops' = Append(ops, <<"removeAll", currentNdkHome>>)
          /\ pc' = "sdkmanagerNew"
       \/ /\ ExistsUnder(fs, currentNdkHome)
          /\ fs' \in {fs, PartialRemove(fs, currentNdkHome)}
          /\ ops' = Append(Append(ops, <<"removeAllErr", currentNdkHome>>),
                           <<"failf", "updateNDK">>)
          /\ pc' = "exit1"
    /\ UNCHANGED <<baseEnv, env, exported, gradlew, input, config, androidSdk,
                   currentNdkHome, currentVersion, run, prev>>

\* sdkmanager.New
SdkManagerNew ==
    /\ pc = "sdkmanagerNew"
    /\ \/ pc' = "install" /\ UNCHANGED ops
       \/ Failf("updateNDK")
    /\ UNCHANGED <<baseEnv, env, exported, fs, gradlew, input, config, androidSdk,
                   currentNdkHome, currentVersion, run, prev>>

\* variant: the error of the install command is logged but not returned
RunInstall_ErrIgnored ==
    /\ pc = "install"
    /\ \/ /\ fs' = [fs EXCEPT ![newNDKHome] = Installed(Meta(config.NDKVersion))]
          /\ ops' = Append(ops, <<"sdkmanager", config.NDKVersion>>)
       \/ /\ fs' \in {fs, [fs EXCEPT ![newNDKHome] = EmptyDir]}
          /\ ops' = Append(Append(ops, <<"sdkmanagerErr", config.NDKVersion>>),
                           <<"errorf", "output">>)
    /\ pc' = "exportPath"
    /\ UNCHANGED <<baseEnv, env, exported, gradlew, input, config, androidSdk,
                   currentNdkHome, currentVersion, run, prev>>

\* sdkManager.InstallCommand(ndkComponent).RunAndReturnTrimmedOutput()
RunInstall ==
    /\ pc = "install"
    /\ \/ /\ fs' = [fs EXCEPT ![newNDKHome] = Installed(Meta(config.NDKVersion))]
          /\ ops' = Append(ops, <<"sdkmanager", config.NDKVersion>>)
          /\ pc' = "exportPath"
       \/ /\ fs' \in {fs, [fs EXCEPT ![newNDKHome] = EmptyDir]}
          /\ ops' = Append(Append(Append(ops, <<"sdkmanagerErr", config.NDKVersion>>),
                                  <<"errorf", "output">>),
                           <<"failf", "updateNDK">>)
          /\ pc' = "exit1"
    /\ UNCHANGED <<baseEnv, env, exported, gradlew, input, config, androidSdk,
                   currentNdkHome, currentVersion, run, prev>>

\* fmt.Sprintf("%s:%s", os.Getenv("PATH"), newNDKHome)
\* variant: the new install path is put in front of the existing PATH
AppendedPath_Prepended == newNDKHome \o <<":">> \o Getenv(env, "PATH")

AppendedPath == Getenv(env, "PATH") \o <<":">> \o newNDKHome

ExportPath ==
    /\ pc = "exportPath"
    /\ \/ /\ exported' = ExportEnvironmentWithEnvman(exported, "PATH", AppendedPath)
          /\ ops' = Append(ops, <<"export", "PATH", AppendedPath>>)
          /\ pc' = "exportNdkHome"
       \/ /\ Failf("updateNDK")
          /\ UNCHANGED exported
    /\ UNCHANGED <<baseEnv, env, fs, gradlew, input, config, androidSdk,
                   currentNdkHome, currentVersion, run, prev>>

\* variant: the location that was probed is exported as the new home
ExportNdkHome_CurrentHome ==
    /\ pc = "exportNdkHome"
    /\ \/ /\ exported' = ExportEnvironmentWithEnvman(exported, androidNDKHome, currentNdkHome)
          /\ ops' = Append(ops, <<"export", androidNDKHome, currentNdkHome>>)
          /\ pc' = "licences"
       \/ /\ Failf("updateNDK")
          /\ UNCHANGED exported
    /\ UNCHANGED <<baseEnv, env, fs, gradlew, input, config, androidSdk,
                   currentNdkHome, currentVersion, run, prev>>

\* variant: the new home is also set in the process environment
ExportNdkHome_Setenv ==
    /\ pc = "exportNdkHome"
    /\ \/ /\ exported' = ExportEnvironmentWithEnvman(exported, androidNDKHome, newNDKHome)
          /\ env' = [env EXCEPT ![androidNDKHome] = Val(newNDKHome)]
          /\ ops' = Append(ops, <<"export", androidNDKHome, newNDKHome>>)
          /\ pc' = "licences"
       \/ /\ Failf("updateNDK")
          /\ UNCHANGED <<exported, env>>
    /\ UNCHANGED <<baseEnv, fs, gradlew, input, config, androidSdk,
                   currentNdkHome, currentVersion, run, prev>>

ExportNdkHome ==
    /\ pc = "exportNdkHome"
    /\ \/ /\ exported' = ExportEnvironmentWithEnvman(exported, androidNDKHome, newNDKHome)
          /\ ops' = Append(ops, <<"export", androidNDKHome, newNDKHome>>)
          /\ pc' = "licences"
       \/ /\ Failf("updateNDK")
          /\ UNCHANGED exported
    /\ UNCHANGED <<baseEnv, env, fs, gradlew, input, config, androidSdk,
                   currentNdkHome, currentVersion, run, prev>>

----------------------------------------------------------------------------
(* main, continued *)

\* variant: the live environment is left as it is
ClearUnsetenv_Skipped ==
    /\ pc = "ndk"
    /\ config.NDKVersion = Empty
    /\ pc' = "exportClear"
    /\ UNCHANGED <<baseEnv, env, exported, fs, gradlew, input, config, androidSdk,
                   currentNdkHome, currentVersion, ops, run, prev>>

\* config.NDKVersion == "": os.Unsetenv("ANDROID_NDK_HOME")
ClearUnsetenv ==
    /\ pc = "ndk"
    /\ config.NDKVersion = Empty
    /\ \/ /\ env' = Unsetenv(env, androidNDKHome)
          /\ ops' = Append(ops, <<"unsetenv", androidNDKHome>>)
          /\ pc' = "exportClear"
       \/ /\ Failf("unsetenv")
          /\ UNCHANGED env
    /\ UNCHANGED <<baseEnv, exported, fs, gradlew, input, config, androidSdk,
                   currentNdkHome, currentVersion, run, prev>>

\* tools.ExportEnvironmentWithEnvman("ANDROID_NDK_HOME", "")
\* variant: the empty value is published under PATH
ClearExport_WrongKey ==
    /\ pc = "exportClear"
    /\ \/ /\ exported' = ExportEnvironmentWithEnvman(exported, "PATH", Empty)
          /\ ops' = Append(ops, <<"export", "PATH", Empty>>)
          /\ pc' = "licences"
       \/ /\ Failf("exportClear")
          /\ UNCHANGED exported
    /\ UNCHANGED <<baseEnv, env, fs, gradlew, input, config, androidSdk,
                   currentNdkHome, currentVersion, run, prev>>

ClearExport ==
    /\ pc = "exportClear"
    /\ \/ /\ exported' = ExportEnvironmentWithEnvman(exported, androidNDKHome, Empty)
          /\ ops' = Append(ops, <<"export", androidNDKHome, Empty>>)
          /\ pc' = "licences"
       \/ /\ Failf("exportClear")
          /\ UNCHANGED exported
    /\ UNCHANGED <<baseEnv, env, fs, gradlew, input, config, androidSdk,
                   currentNdkHome, currentVersion, run, prev>>

\* androidcomponents.InstallLicences
InstallLicences ==
    /\ pc = "licences"
    /\ \/ pc' = "ensure" /\ UNCHANGED ops
       \/ Failf("licences")
    /\ UNCHANGED <<baseEnv, env, exported, fs, gradlew, input, config, androidSdk,
                   currentNdkHome, currentVersion, run, prev>>

\* androidcomponents.Ensure
EnsureComponents ==
    /\ pc = "ensure"
    /\ \/ pc' = "done" /\ UNCHANGED ops
       \/ Failf("ensure")
    /\ UNCHANGED <<baseEnv, env, exported, fs, gradlew, input, config, androidSdk,
                   currentNdkHome, currentVersion, run, prev>>

\* the pipeline runs the step again: a new process, started with the
\* pipeline's environment overlaid by what was exported so far
StartRun ==
    /\ pc \in {"done", "exit1"}
    /\ run < MaxRuns
    /\ run' = run + 1
    /\ prev' = [ran |-> TRUE, NDKVersion |-> input.ndk_version, ok |-> (pc = "done"),
                installs |-> Len(Installs(ops))]
    /\ input' \in [ndk_version : RequestedVersions]
    /\ env' = StepEnv(baseEnv, exported)
    /\ config' = NoConfig
    /\ androidSdk' = NoSdk
    /\ currentNdkHome' = Empty
    /\ currentVersion' = Empty
    /\ ops' = <<>>
    /\ pc' = "parse"
    /\ UNCHANGED <<baseEnv, exported, fs, gradlew>>

Next ==
    \/ ParseConfig
    \/ Chmod
    \/ NewDefaultModel
    \/ ValidateVersion
    \/ ProbeCurrent
    \/ RemoveExisting
    \/ SdkManagerNew
    \/ RunInstall
    \/ ExportPath
    \/ ExportNdkHome
    \/ ClearUnsetenv
    \/ ClearExport
    \/ InstallLicences
    \/ EnsureComponents
    \/ StartRun

Spec == Init /\ [][Next]_vars

----------------------------------------------------------------------------
(* ndkVersion on its own: every metadata file up to MaxContentLen tokens *)

ProbeTokens == {"Pkg.Revision", "PKG.REVISION", EQ, SP, NL, "23.1.7779620"}

ProbeDirs ==
    {Absent, EmptyDir, Unreadable}
    \cup {Installed(c) : c \in SeqsUpTo(ProbeTokens, MaxContentLen)}

DefaultEnv ==
    [ANDROID_NDK_HOME |-> Val(OptNdk), ANDROID_HOME |-> Val(SdkDir),
     ANDROID_SDK_ROOT |-> Val(SdkDir), HOME |-> Val(<<"home">>),
     PATH |-> Val(InitialPath)]

InitProbe ==
    /\ baseEnv = DefaultEnv
    /\ env = DefaultEnv
    /\ exported = EmptyStore
    /\ \E d \in ProbeDirs : fs = [l \in Locs |-> IF l = OptNdk THEN d ELSE Absent]
    /\ gradlew = [exists |-> TRUE, mode |-> "0770", chmodOk |-> TRUE]
    /\ input = [ndk_version |-> Empty]
    /\ config = NoConfig
    /\ androidSdk = NoSdk
    /\ currentNdkHome = OptNdk
    /\ currentVersion = Empty
    /\ pc = "probe"
    /\ ops = <<>>
    /\ run = 1
    /\ prev = NoPrev

ProbeVersion ==
    /\ pc = "probe"
    /\ currentVersion' = ndkVersion(fs, currentNdkHome)
    /\ pc' = "probed"
    /\ UNCHANGED <<baseEnv, env, exported, fs, gradlew, input, config, androidSdk,
                   currentNdkHome, ops, run, prev>>

NextProbe == ProbeVersion

SpecProbe == InitProbe /\ [][NextProbe]_vars

----------------------------------------------------------------------------
(* currentNDKHome on its own: every assignment of the four variables *)

ResolveEnvs ==
    [ANDROID_NDK_HOME : {Unset, Val(Empty), Val(OptNdk), Val(<<"opt", "ndk", "">>)},
     ANDROID_HOME : {Unset, Val(Empty), Val(SdkDir), Val(<<"sdk", "">>)},
     ANDROID_SDK_ROOT : {Unset, Val(Empty), Val(<<"sdkroot">>)},
     HOME : {Unset, Val(Empty), Val(<<"home">>)},
     PATH : {Val(InitialPath)}]

InitResolve ==
    /\ baseEnv \in ResolveEnvs
    /\ env = baseEnv
    /\ exported = EmptyStore
    /\ fs \in {[l \in Locs |-> Absent], [l \in Locs |-> Installed(Meta(V1))]}
    /\ gradlew = [exists |-> TRUE, mode |-> "0770", chmodOk |-> TRUE]
    /\ input = [ndk_version |-> Empty]
    /\ config = NoConfig
    /\ androidSdk = NoSdk
    /\ currentNdkHome = Empty
    /\ currentVersion = Empty
    /\ pc = "resolve"
    /\ ops = <<>>
    /\ run = 1
    /\ prev = NoPrev

ResolveHome ==
    /\ pc = "resolve"
    /\ currentNdkHome' = currentNDKHome(env)
    /\ pc' = "resolved"
    /\ UNCHANGED <<baseEnv, env, exported, fs, gradlew, input, config, androidSdk,
                   currentVersion, ops, run, prev>>

NextResolve == ResolveHome

SpecResolve == InitResolve /\ [][NextResolve]_vars

----------------------------------------------------------------------------
(* Properties *)

Last(o) == o[Len(o)]

HasOp(o, kind) == \E i \in 1..Len(o) : o[i][1] = kind

\* position of the first effect of a kind, 0 when there is none
PosOf(o, kind) ==
    IF HasOp(o, kind)
    THEN CHOOSE i \in 1..Len(o) : o[i][1] = kind /\ \A j \in 1..(i - 1) : o[j][1] # kind
    ELSE 0

Failed(o, phase) == o # <<>> /\ Last(o)[1] = "failf" /\ Last(o)[2] = phase

\* chmod calls that changed the mode of gradlew
ModeChanges(o) == SelectSeq(o, LAMBDA e : e[1] = "chmod" /\ e[2] # "0770")

ExportsOf(o, key) == SelectSeq(o, LAMBDA e : e[1] = "export" /\ e[2] = key)

Terminal == pc \in {"done", "exit1"}

\* C1: when the step runs twice in succession with the same non-empty version
\* and the first run succeeds, the two runs invoke the package manager at most
\* once in total, and the second run deletes nothing and never invokes the
\* package manager.
C1_Idempotence ==
    (prev.ran /\ prev.ok /\ prev.NDKVersion # Empty
        /\ input.ndk_version = prev.NDKVersion)
    => /\ Removals(ops) = <<>>
       /\ Installs(ops) = <<>>
       /\ prev.installs <= 1

C1_Witness ==
    /\ prev.ran /\ prev.ok /\ prev.installs = 1
    /\ input.ndk_version = prev.NDKVersion
    /\ pc = "done"
    /\ HasOp(ops, "probe")

\* C2: whenever the version probed at the resolved location equals the
\* requested version, updateNDK returns success with no deletion, no
\* package-manager invocation and no export of PATH or ANDROID_NDK_HOME.
C2_ShortCircuit ==
    (HasOp(ops, "probe") /\ currentVersion = config.NDKVersion)
    => /\ Removals(ops) = <<>>
       /\ Installs(ops) = <<>>
       /\ Exports(ops) = <<>>
       /\ ~Failed(ops, "updateNDK")
       /\ pc \in {"licences", "ensure", "done", "exit1"}

C2_Witness ==
    /\ HasOp(ops, "probe")
    /\ currentVersion = config.NDKVersion
    /\ currentVersion = V1
    /\ pc = "done"

InvalidRequest == input.ndk_version # Empty /\ NewVersionErr(input.ndk_version)

\* C3 as stated: for a non-empty requested version that is no valid version the
\* step fails before any filesystem mutation: no deletion, no install, no other
\* change to the filesystem, and nothing is published.
C3_Original ==
    /\ InvalidRequest => pc # "done"
    /\ (InvalidRequest /\ pc = "exit1" /\ Failed(ops, "version"))
       => /\ Removals(ops) = <<>>
          /\ Installs(ops) = <<>>
          /\ ModeChanges(ops) = <<>>
          /\ Exports(ops) = <<>>

\* C3 amended: for a non-empty requested version that is no valid version the
\* step never succeeds and never enters updateNDK: it deletes nothing, invokes no
\* package manager and publishes nothing; it ends in the failure of chmod, of
\* the SDK initialisation or of the version validation, and the only filesystem
\* change before that is the mode of gradlew.
C3_ValidationBeforeInstall ==
    InvalidRequest
    => /\ pc \in {"parse", "chmod", "sdkinit", "ndk", "exit1"}
       /\ Removals(ops) = <<>>
       /\ Installs(ops) = <<>>
       /\ Exports(ops) = <<>>
       /\ ~HasOp(ops, "probe")
       /\ pc = "exit1" =>
            Failed(ops, "chmod") \/ Failed(ops, "sdkinit") \/ Failed(ops, "version")

C3_Witness ==
    /\ InvalidRequest
    /\ pc = "exit1"
    /\ Failed(ops, "version")
    /\ ModeChanges(ops) # <<>>
    /\ \E l \in Locs : fs[l].meta = "ok"

\* C4: a run that requested a version either publishes both PATH and
\* ANDROID_NDK_HOME and completes, or fails having published neither: no
\* terminal state has one of the two published without the other, and no
\* failed run has published anything.
C4_NoPartialPublish ==
    (Terminal /\ config.NDKVersion # Empty)
    => /\ (ExportsOf(ops, "PATH") # <<>>) <=> (ExportsOf(ops, androidNDKHome) # <<>>)
       /\ pc = "exit1" => Exports(ops) = <<>>

ClearBranchDone ==
    /\ input.ndk_version = Empty
    /\ \/ pc \in {"licences", "ensure", "done"}
       \/ pc = "exit1" /\ (Failed(ops, "licences") \/ Failed(ops, "ensure"))

\* C5: once a run with an empty requested version is through its
\* clearing branch, ANDROID_NDK_HOME is unset in the live environment and empty
\* in the exported state, whatever the prior state.
C5_ClearOnEmpty ==
    ClearBranchDone
    => /\ ~env[androidNDKHome].set
       /\ Getenv(env, androidNDKHome) = Empty
       /\ exported[androidNDKHome] = Val(Empty)

C5_Witness ==
    /\ ClearBranchDone
    /\ pc = "done"
    /\ run = 1
    /\ ~baseEnv[androidNDKHome].set
    /\ \A l \in Locs : ~fs[l].dir

\* C6: when the probed version differs from the valid requested version V and
\* every external call succeeds, the current location is deleted first, then
\* the package manager is invoked exactly once with V, and the published
\* ANDROID_NDK_HOME is <sdk root>/ndk/V, not the legacy ndk-bundle path.
C6_MismatchReconciliation ==
    (pc = "done" /\ HasOp(ops, "probe") /\ currentVersion # config.NDKVersion)
    => /\ Removals(ops) = << <<"removeAll", currentNdkHome>> >>
       /\ Installs(ops) = << <<"sdkmanager", config.NDKVersion>> >>
       /\ PosOf(ops, "removeAll") < PosOf(ops, "sdkmanager")
       /\ exported[androidNDKHome] =
            Val(androidSdk.home \o <<"ndk">> \o config.NDKVersion)
       /\ exported[androidNDKHome].val # androidSdk.home \o <<"ndk-bundle">>
       /\ currentNdkHome # exported[androidNDKHome].val
            => ~DirAt(fs, currentNdkHome).dir

C6_Witness ==
    /\ pc = "done"
    /\ HasOp(ops, "probe")
    /\ currentVersion = V1
    /\ config.NDKVersion = V2
    /\ currentNdkHome = SdkDir \o <<"ndk-bundle">>

\* the first non-empty variable in the fixed order decides the location
PrecedenceOrder == <<"ANDROID_NDK_HOME", "ANDROID_HOME", "ANDROID_SDK_ROOT", "HOME">>

ExpectedHome(e) ==
    LET set == {i \in 1..4 : e[PrecedenceOrder[i]].set /\ e[PrecedenceOrder[i]].val # <<>>}
    IN  IF set = {} THEN <<"ndk-bundle">>
        ELSE LET i == CHOOSE k \in set : \A j \in set : k <= j
                 v == e[PrecedenceOrder[i]].val
             IN  IF i = 1 THEN v
                 ELSE SelectSeq(v, LAMBDA c : c \notin {"", "."}) \o <<"ndk-bundle">>

ProbedContent == fs[OptNdk].content

KeyWords == {"Pkg.Revision", "PKG.REVISION"}

IsKeyLine(line) == \E i \in 1..Len(line) : line[i] \in KeyWords

KeyLines(c) == SelectSeq(Split(c, NL), IsKeyLine)

\* everything after the first "=" of a line
AfterFirstEq(line) ==
    LET i == CHOOSE k \in 1..Len(line) : line[k] = EQ /\ \A j \in 1..(k - 1) : line[j] # EQ
    IN  SubSeq(line, i + 1, Len(line))

\* a line that starts with the revision key
StartsWithKey(line) == TrimLeft(line) # <<>> /\ Head(TrimLeft(line)) \in KeyWords

\* C8 as stated: for a readable metadata file whose one revision line starts
\* with the key and has a "=", VersionProbe returns everything after the first
\* "=" of that line, trimmed, so a value that itself contains "=" is returned
\* whole.
C8_ValueAfterFirstEq ==
    (pc = "probed" /\ fs[OptNdk].meta = "ok"
        /\ Len(KeyLines(ProbedContent)) = 1
        /\ StartsWithKey(KeyLines(ProbedContent)[1])
        /\ Contains(KeyLines(ProbedContent)[1], EQ))
    => currentVersion = TrimSpace(AfterFirstEq(KeyLines(ProbedContent)[1]))

\* C9: probing a location whose metadata file is missing or unreadable, or
\* whose content has no revision line, yields the empty version and the probe
\* completes.
C9_MetadataAbsence ==
    (pc = "probed"
        /\ (fs[OptNdk].meta # "ok" \/ KeyLines(ProbedContent) = <<>>))
    => currentVersion = Empty

C9_Witness ==
    /\ pc = "probed"
    /\ fs[OptNdk].meta = "ok"
    /\ ProbedContent = <<"23.1.7779620", EQ, "23.1.7779620">>
    /\ currentVersion = Empty

\* C10: when the package manager's install command fails, its output is
\* logged, the step exits with a non-zero status, neither PATH nor
\* ANDROID_NDK_HOME is published by the run, and the deleted location holds no
\* installation afterwards.
C10_InstallFailureFatal ==
    HasOp(ops, "sdkmanagerErr")
    => /\ pc = "exit1"
       /\ PosOf(ops, "errorf") = PosOf(ops, "sdkmanagerErr") + 1
       /\ ops[PosOf(ops, "errorf")] = <<"errorf", "output">>
       /\ Failed(ops, "updateNDK")
       /\ Exports(ops) = <<>>
       /\ PosOf(ops, "removeAll") \in 1..(PosOf(ops, "sdkmanagerErr") - 1)
       /\ DirAt(fs, currentNdkHome).meta # "ok"

C10_Witness ==
    /\ HasOp(ops, "sdkmanagerErr")
    /\ currentVersion = V1
    /\ config.NDKVersion = V2
    /\ pc = "exit1"
    /\ exported = EmptyStore

ParseErrorLogged == HasOp(ops, "errorf") /\ ops[PosOf(ops, "errorf")] = <<"errorf", "parse">>

\* C11 as stated: when the input parser returns an error the step terminates
\* with a non-zero status right there: the parse error is the last thing the
\* run does, and neither chmod nor any later phase runs after it.
C11_ParseErrorFatal ==
    (ParseErrorLogged /\ Terminal)
    => /\ pc = "exit1"
       /\ Last(ops) = <<"errorf", "parse">>

\* number of "=" in a line
RECURSIVE CountEq(_)
CountEq(line) ==
    IF line = <<>> THEN 0
    ELSE (IF Head(line) = EQ THEN 1 ELSE 0) + CountEq(Tail(line))

\* what one revision line alone yields: its value when it has one "=",
\* otherwise nothing
ValueOfLine(line) ==
    IF CountEq(line) = 1 THEN TrimSpace(AfterFirstEq(line)) ELSE Empty

\* C12 as stated: when a readable metadata file has lines starting with the
\* revision key, the result is decided by the first of them alone, also when
\* that line has no "=" or several: a later matching line never supplies the
\* returned value.
C12_FirstMatchingLineOnly ==
    (pc = "probed" /\ fs[OptNdk].meta = "ok" /\ KeyLines(ProbedContent) # <<>>
        /\ \A i \in 1..Len(KeyLines(ProbedContent)) :
              StartsWithKey(KeyLines(ProbedContent)[i]))
    => currentVersion = ValueOfLine(KeyLines(ProbedContent)[1])

\* the previous run of the step installed the version it was asked for
PrevInstalled == prev.ran /\ prev.ok /\ prev.installs = 1

\* the SDK-derived root the resolver falls back to in a run that got to probe
LegacyRoot ==
    IF Getenv(env, "ANDROID_HOME") # Empty THEN Getenv(env, "ANDROID_HOME")
    ELSE Getenv(env, "ANDROID_SDK_ROOT")

\* C13 as stated: in every invocation, also one that follows a successful
\* install by this step, the probed location is the legacy <root>/ndk-bundle
\* path and never the versioned path the package manager installed to.
C13_Original ==
    (HasOp(ops, "probe") /\ PrevInstalled)
    => /\ currentNdkHome[Len(currentNdkHome)] = "ndk-bundle"
       /\ currentNdkHome # androidSdk.home \o <<"ndk">> \o prev.NDKVersion

\* C13 amended: the probed location is ANDROID_NDK_HOME itself when that is
\* non-empty and the legacy <root>/ndk-bundle path only otherwise; in an
\* invocation that follows a successful install by this step it is the
\* versioned path <sdk root>/ndk/<version> that install published.
C13_ProbedLocation ==
    HasOp(ops, "probe")
    => /\ ops[PosOf(ops, "probe")] = <<"probe", currentNdkHome>>
       /\ Getenv(env, androidNDKHome) # Empty
            => currentNdkHome = Getenv(env, androidNDKHome)
       /\ Getenv(env, androidNDKHome) = Empty
            => currentNdkHome = LegacyRoot \o <<"ndk-bundle">>
       /\ PrevInstalled
            => currentNdkHome = androidSdk.home \o <<"ndk">> \o prev.NDKVersion

C13_Witness ==
    /\ HasOp(ops, "probe")
    /\ PrevInstalled
    /\ prev.NDKVersion = V1
    /\ currentNdkHome = <<"sdk", "ndk", "18.1.5063045">>
    /\ currentVersion = V1
    /\ config.NDKVersion = V2
    /\ pc = "done"

\* C14: whenever the published PATH changes, the new value is the PATH the
\* invocation was started with, followed by ":" and the versioned install
\* path; the previously published value and the pipeline's own PATH are
\* prefixes of it (nothing removed or reordered), and the invocation has run
\* the package manager's install successfully.
C14_PathAppendOnly ==
    [][exported'["PATH"] # exported["PATH"]
       => /\ exported'["PATH"].set
          /\ exported'["PATH"].val =
                Getenv(env, "PATH") \o <<":">> \o androidSdk.home \o <<"ndk">>
                    \o config.NDKVersion
          /\ exported["PATH"].set
                => IsPrefix(exported["PATH"].val, exported'["PATH"].val)
          /\ IsPrefix(Getenv(baseEnv, "PATH"), exported'["PATH"].val)
          /\ HasOp(ops, "sdkmanager")
          /\ ~HasOp(ops, "sdkmanagerErr")]_vars

\* two installs in a row: the entry of the first, since deleted, stays in PATH
C14_Witness ==
    /\ exported["PATH"] =
          Val(InitialPath \o <<":", "sdk", "ndk", "18.1.5063045">>
                          \o <<":", "sdk", "ndk", "22.1.7171670">>)
    /\ ~fs[<<"sdk", "ndk", "18.1.5063045">>].dir
    /\ fs[<<"sdk", "ndk", "22.1.7171670">>] = Installed(Meta(V2))
    /\ HasOp(ops, "removeAll")
    /\ pc = "done"

\* C15: a probe of a location that is missing, or present without readable
\* metadata, yields the empty version and leads a valid request to the
\* recursive delete; deleting a location that does not exist succeeds and
\* changes nothing on disk; and a successful run whose probe found no version
\* has installed the requested version and published its versioned path.
C15_FirstInstall ==
    /\ [][(pc = "updateNDK" /\ pc' # pc /\ DirAt(fs, currentNDKHome(env)).meta # "ok")
          => /\ currentVersion' = Empty
             /\ ~NewVersionErr(config.NDKVersion)
             /\ pc' = "removeAll"
             /\ ops' = Append(ops, <<"probe", currentNDKHome(env)>>)]_vars
    /\ [][(pc = "removeAll" /\ pc' # pc /\ ~ExistsUnder(fs, currentNdkHome))
          => /\ pc' = "sdkmanagerNew"
             /\ fs' = fs
             /\ ops' = Append(ops, <<"removeAll", currentNdkHome>>)]_vars
    /\ []((pc = "done" /\ HasOp(ops, "probe") /\ currentVersion = Empty)
          => /\ HasOp(ops, "removeAll")
             /\ Installs(ops) = << <<"sdkmanager", config.NDKVersion>> >>
             /\ fs[newNDKHome] = Installed(Meta(config.NDKVersion))
             /\ exported[androidNDKHome] = Val(newNDKHome)
             /\ exported["PATH"] = Val(Getenv(env, "PATH") \o <<":">> \o newNDKHome))

\* first run on a host whose only toolchain lies outside the resolved location
C15_Witness ==
    /\ pc = "done"
    /\ ~prev.ran
    /\ currentNdkHome = <<"sdk", "ndk-bundle">>
    /\ currentVersion = Empty
    /\ fs[OptNdk] = Installed(Meta(V2))
    /\ ~fs[<<"sdk", "ndk-bundle">>].dir
    /\ ops[PosOf(ops, "removeAll")] = <<"removeAll", <<"sdk", "ndk-bundle">> >>
    /\ fs[<<"sdk", "ndk", "18.1.5063045">>] = Installed(Meta(V1))
    /\ exported[androidNDKHome] = Val(<<"sdk", "ndk", "18.1.5063045">>)

\* the environment the next step of the pipeline is started with
ResultingEnv == StepEnv(baseEnv, exported)

\* C16: whatever invocations came before, when an invocation that requested a
\* non-empty version V has succeeded, the location the resolver returns in
\* the environment left for the next step holds an installation whose probed
\* version is V.
C16_Convergence ==
    (pc = "done" /\ input.ndk_version # Empty)
    => ndkVersion(fs, currentNDKHome(ResultingEnv)) = input.ndk_version

\* an empty request first, then a successful request for 22.1.7171670 that
\* replaced the 18.1.5063045 it found
C16_Witness ==
    /\ pc = "done"
    /\ prev.ran /\ prev.ok /\ prev.NDKVersion = Empty
    /\ input.ndk_version = V2
    /\ currentVersion = V1
    /\ HasOp(ops, "sdkmanager")
    /\ currentNDKHome(ResultingEnv) = <<"sdk", "ndk", "22.1.7171670">>
    /\ ndkVersion(fs, currentNDKHome(ResultingEnv)) = V2

\* the phases of main that follow updateNDK on the requested-version path
AfterUpdateNDK == pc \in {"licences", "ensure", "done"} /\ HasOp(ops, "removeAll")

\* C17 as stated: after a mismatch the toolchain-home value the later phases
\* see in the process environment names the location that was just deleted.
C17_Original ==
    AfterUpdateNDK => Getenv(env, androidNDKHome) = currentNdkHome

\* C17 amended: within one invocation the process environment changes only
\* in the empty-version branch, by the unsetting of ANDROID_NDK_HOME; after
\* an install the licence and component phases see ANDROID_NDK_HOME and PATH
\* as they were, while the exported state carries the new path, and the old
\* ANDROID_NDK_HOME names the deleted location when it was non-empty (when it
\* was empty the deleted location is the legacy <root>/ndk-bundle).
C17_LiveEnvUntouched ==
    /\ [][env' # env
          => \/ run' # run
             \/ /\ pc = "ndk"
                /\ input.ndk_version = Empty
                /\ env' = Unsetenv(env, androidNDKHome)]_vars
    /\ [](AfterUpdateNDK
          => /\ exported[androidNDKHome] = Val(newNDKHome)
             /\ exported["PATH"] = Val(Getenv(env, "PATH") \o <<":">> \o newNDKHome)
             /\ Getenv(env, "PATH") # exported["PATH"].val
             /\ ops[PosOf(ops, "removeAll")] = <<"removeAll", currentNdkHome>>
             /\ Getenv(env, androidNDKHome) # Empty
                  => Getenv(env, androidNDKHome) = currentNdkHome
             /\ Getenv(env, androidNDKHome) = Empty
                  => currentNdkHome = LegacyRoot \o <<"ndk-bundle">>)

C17_Witness ==
    /\ pc = "ensure"
    /\ HasOp(ops, "sdkmanager")
    /\ currentVersion = V2
    /\ Getenv(env, androidNDKHome) = OptNdk
    /\ currentNdkHome = OptNdk
    /\ ~fs[OptNdk].dir
    /\ exported[androidNDKHome] = Val(<<"sdk", "ndk", "18.1.5063045">>)
    /\ Getenv(env, "PATH") = InitialPath

\* the positions of main inside updateNDK
InUpdateNDK ==
    pc \in {"updateNDK", "removeAll", "sdkmanagerNew", "install", "exportPath",
            "exportNdkHome"}

\* C18: the branch is taken once per invocation, at one point, and by the
\* emptiness of the requested version alone; an invocation with an empty
\* request never enters updateNDK, has no probe, deletion, package-manager
\* install or PATH publication among its effects, and none of its steps
\* changes the install locations on disk or the published PATH.
C18_EmptyRequestFrame ==
    /\ [][(pc = "ndk" /\ pc' # pc)
          => IF input.ndk_version = Empty
             THEN pc' = "exportClear" \/ Failed(ops', "unsetenv")
             ELSE pc' = "updateNDK" \/ Failed(ops', "version")]_vars
    /\ [][pc' = "ndk" /\ pc # "ndk" => pc = "sdkinit"]_vars
    /\ [](input.ndk_version = Empty
          => /\ ~InUpdateNDK
             /\ ~HasOp(ops, "probe")
             /\ Removals(ops) = <<>>
             /\ Installs(ops) = <<>>
             /\ ExportsOf(ops, "PATH") = <<>>)
    /\ [][(input.ndk_version = Empty /\ run' = run)
          => fs' = fs /\ exported'["PATH"] = exported["PATH"]]_vars

\* a host with 18.1.5063045 in the legacy location after an empty request
C18_Witness ==
    /\ pc = "done"
    /\ input.ndk_version = Empty
    /\ HasOp(ops, "unsetenv")
    /\ fs[<<"sdk", "ndk-bundle">>] = Installed(Meta(V1))
    /\ exported[androidNDKHome] = Val(Empty)
    /\ ~exported["PATH"].set
    /\ ~env[androidNDKHome].set

====
